---- MODULE Spec2Model ----
(***************************************************************************)
(* Model of agenta-cli/agenta/sdk/agenta_init.py: the AgentaSingleton      *)
(* (identity resolution, name -> id lookup, Config construction) and the   *)
(* Config attribute bag (set / default / push / pull / all).               *)
(*                                                                         *)
(* Python values are modelled as strings; None is the string "None",       *)
(* True / False are "True" / "False".  Objects are modelled by their       *)
(* attribute dictionaries (functions from attribute names to values).      *)
(***************************************************************************)
EXTENDS Integers, Sequences, FiniteSets, TLC

VARIABLES
    env,           \* os.environ
    singleton,     \* the AgentaSingleton instance's attributes (other than config)
    config_ref,    \* singleton.config: 0 is None, otherwise a reference to a Config
    config,        \* the attributes (__dict__) of the Config object
    published,     \* the config reference handed to set_global
    ctor,          \* history: the (base_id, host) the Config was constructed with
    last_set,      \* history: name -> value of the latest Config.set of that name
    call,          \* history: the operation just executed and its inputs
    before,        \* history: the Config's attributes when that operation started
    outcome,       \* the exception that operation raised to its caller (or none)
    ret,           \* the value it returned
    remote_calls,  \* the backend calls it made
    attempt,       \* what became of the Config's backend request: none was
                   \* attempted, it failed (raised), or it succeeded
    printed,       \* what it printed
    logged         \* the warnings it logged

vars == <<env, singleton, config_ref, config, published, ctor,
          last_set, call, before, outcome, ret, remote_calls, attempt, printed, logged>>

(* ------------------------------ bounds -------------------------------- *)

\* most keyword arguments passed in one set / default / push call
MaxKwargs == 2

(* --------------------------- Python values ---------------------------- *)

None == "None"

\* Python truthiness of the values used here (None, False and "" are falsy)
Truthy(v) == v \notin {None, "False", ""}

\* `a or b`
Or(a, b) == IF Truthy(a) THEN a ELSE b

\* an object without instance attributes / an empty dict
EmptyDict == [k \in {} |-> None]

\* setattr(obj, key, value) for every pair of kw, on the attribute dict
SetAttrs(attrs, kw) ==
    [k \in DOMAIN attrs \cup DOMAIN kw |-> IF k \in DOMAIN kw THEN kw[k] ELSE attrs[k]]

\* os.environ.get(key, default)
EnvGet(e, key, default) == IF key \in DOMAIN e THEN e[key] ELSE default

\* the names bound in the module namespace of agenta_init.py
ModuleGlobals ==
    {"os", "logging", "Optional", "Any", "set_global", "AgentaApi",
     "APIRequestError", "logger", "AgentaSingleton", "Config", "init"}

(* ----------------------------- inputs --------------------------------- *)

\* process environments explored
Envs ==
    { EmptyDict,
      [AGENTA_BASE_ID |-> "eb", AGENTA_APP_ID |-> "ea",
       AGENTA_HOST |-> "eh", AGENTA_API_KEY |-> "ek"],
      [AGENTA_APP_NAME |-> "eapp", AGENTA_BASE_NAME |-> "ebase",
       AGENTA_VARIANT_ID |-> "vid", AGENTA_VARIANT_NAME |-> "vname"],
      [AGENTA_BASE_ID |-> "eb"] }

\* keyword arguments of init(...)
\* (host and api_key are passed together or not at all)
InitArgs ==
    { [app_name |-> an, base_name |-> bn, base_id |-> b, app_id |-> a,
       api_key |-> c[1], host |-> c[2]] :
        an \in {None, "app"}, bn \in {None, "base"}, b \in {None, "b0"},
        a \in {None, "a0"}, c \in {<<None, None>>, <<"k1", "h1">>} }

\* what a remote lookup can do: raise, or return a sequence of ids (no match,
\* one match, several matches)
Unused == [ok |-> FALSE, items |-> <<"unused">>]
Failure == [ok |-> FALSE, items |-> <<>>]
Found(items) == [ok |-> TRUE, items |-> items]
AppResponses == {Failure, Found(<<>>), Found(<<"a1">>), Found(<<"a2", "a1">>)}
BaseResponses == {Failure, Found(<<>>), Found(<<"b1">>), Found(<<"b2", "b1">>)}

\* names and values of Config parameters passed by callers
ParamNames == {"a", "persist", "config_name"}
ParamValues == {"v1", "False"}

\* **kwargs of one call: at most MaxKwargs pairs
Kwargs ==
    UNION {[d -> ParamValues] : d \in {x \in SUBSET ParamNames : Cardinality(x) <= MaxKwargs}}

\* what get_config can do: raise, or return a configuration
NoFetch == [ok |-> FALSE, current_version |-> None, parameters |-> EmptyDict]
Fetches ==
    {NoFetch} \cup
    {[ok |-> TRUE, current_version |-> "1", parameters |-> p] : p \in {EmptyDict, [a |-> "r1"]}}

(* --------------------------- exceptions ------------------------------- *)

NoExc == [exc |-> None, msg |-> <<>>, cause |-> None]
Exc(kind, msg, cause) == [exc |-> kind, msg |-> msg, cause |-> cause]
Mentions(e, value) == \E i \in DOMAIN e.msg : e.msg[i] = value

(* ------------------------------ Config -------------------------------- *)

\* Config.__init__(base_id, host)
ConfigNew(base_id, host) ==
    [base_id |-> base_id, host |-> host,
     persist |-> IF base_id = None \/ host = None THEN "False" ELSE "True"]

\* Config.client, lines 125-134: SDKClient(api_key=self.api_key, host=self.host)
\* looks SDKClient up in the module namespace, then reads self.api_key
ConfigClient(attrs) ==
    IF "SDKClient" \notin ModuleGlobals THEN "NameError"
    ELSE IF "api_key" \notin DOMAIN attrs THEN "AttributeError"
    ELSE "ok"

\* Config.set(**kwargs)
ConfigSet(attrs, kw) == SetAttrs(attrs, kw)

\* mutant of ConfigAll: the exclusion list lacks "persist"
ConfigAll_KeepsPersist(attrs) ==
    [k \in DOMAIN attrs \ {"app_name", "base_name", "host", "base_id", "api_key"}
       |-> attrs[k]]

\* Config.all()
ConfigAll(attrs) ==
    [k \in DOMAIN attrs \ {"app_name", "base_name", "host", "base_id", "api_key", "persist"}
       |-> attrs[k]]

\* mutant of ConfigPush: no try / except around the request
ConfigPush_NoCatch(attrs, config_name, overwrite, kw, remote_ok) ==
    IF ~Truthy(attrs.persist)
    THEN [raised |-> NoExc, calls |-> <<>>, attempt |-> "none", logged |-> <<>>]
    ELSE IF ConfigClient(attrs) # "ok"
    THEN [raised |-> Exc(ConfigClient(attrs), <<"SDKClient">>, None), calls |-> <<>>,
          attempt |-> "failed", logged |-> <<>>]
    ELSE [raised |-> IF remote_ok THEN NoExc ELSE Exc("RemoteError", <<"save_config failed">>, None),
          attempt |-> IF remote_ok THEN "ok" ELSE "failed",
          calls |-> <<[api |-> "save_config", base_id |-> attrs.base_id,
                       config_name |-> config_name, parameters |-> kw,
                       overwrite |-> overwrite]>>,
          logged |-> <<>>]

\* Config.push(config_name, overwrite, **kwargs); remote_ok: save_config succeeds
ConfigPush(attrs, config_name, overwrite, kw, remote_ok) ==
    IF ~Truthy(attrs.persist)
    THEN [raised |-> NoExc, calls |-> <<>>, attempt |-> "none", logged |-> <<>>]
    ELSE IF ConfigClient(attrs) # "ok"
    THEN [raised |-> NoExc, calls |-> <<>>, attempt |-> "failed",
          logged |-> <<"Failed to push the configuration to the server with error: ">>]
    ELSE [raised |-> NoExc, attempt |-> IF remote_ok THEN "ok" ELSE "failed",
          calls |-> <<[api |-> "save_config", base_id |-> attrs.base_id,
                       config_name |-> config_name, parameters |-> kw,
                       overwrite |-> overwrite]>>,
          logged |-> IF remote_ok THEN <<>>
                     ELSE <<"Failed to push the configuration to the server with error: ">>]

\* Config.default(overwrite, **kwargs): set, then push("default", ...) in a try;
\* a kwargs key config_name collides with push's own keyword (TypeError)
ConfigDefault(attrs, overwrite, kw, remote_ok) ==
    LET a1 == ConfigSet(attrs, kw)
        p == ConfigPush(a1, "default", overwrite, kw, remote_ok)
    IN IF "config_name" \in DOMAIN kw
       THEN [attrs |-> a1, raised |-> NoExc, calls |-> <<>>, attempt |-> "none",
             logged |-> <<"Unable to push the default configuration to the server.">>]
       ELSE IF p.raised.exc # None
       THEN [attrs |-> a1, raised |-> NoExc, calls |-> p.calls, attempt |-> p.attempt,
             logged |-> p.logged \o <<"Unable to push the default configuration to the server.">>]
       ELSE [attrs |-> a1, raised |-> NoExc, calls |-> p.calls, attempt |-> p.attempt,
             logged |-> p.logged]

\* mutant of PullRefused: `and` in place of `or`
PullRefused_And(attrs, config_name, environment_name) ==
    ~Truthy(attrs.persist) /\ (config_name # "default" /\ environment_name # None)

\* lines 181-183: the guard of pull's "Cannot pull the configuration" error
PullRefused(attrs, config_name, environment_name) ==
    ~Truthy(attrs.persist) /\ (config_name # "default" \/ environment_name # None)

\* Config.pull(config_name, environment_name); fetched: what get_config does
ConfigPull(attrs, config_name, environment_name, fetched) ==
    IF PullRefused(attrs, config_name, environment_name)
    THEN [attrs |-> attrs, kw |-> EmptyDict, calls |-> <<>>, logged |-> <<>>,
          attempt |-> "none",
          raised |-> Exc("Exception", <<"Cannot pull the configuration from the server">>, None)]
    ELSE LET try == Truthy(attrs.persist)
             built == try /\ ConfigClient(attrs) = "ok"
             bound == built /\ fetched.ok
             calls == IF ~built THEN <<>>
                      ELSE IF Truthy(environment_name)
                      THEN <<[api |-> "get_config", base_id |-> attrs.base_id,
                              environment_name |-> environment_name]>>
                      ELSE <<[api |-> "get_config", base_id |-> attrs.base_id,
                              config_name |-> config_name]>>
             w1 == IF try /\ ~bound
                   THEN <<"Failed to pull the configuration from the server with error: ">>
                   ELSE <<>>
             kw == SetAttrs([current_version |-> fetched.current_version], fetched.parameters)
         IN IF bound
            THEN [attrs |-> ConfigSet(attrs, kw), kw |-> kw, calls |-> calls,
                  attempt |-> "ok", logged |-> w1, raised |-> NoExc]
            ELSE [attrs |-> attrs, kw |-> EmptyDict, calls |-> calls, raised |-> NoExc,
                  attempt |-> IF try THEN "failed" ELSE "none",
                  logged |-> w1 \o <<"Failed to set the configuration with error: ">>]

(* -------------------------- AgentaSingleton --------------------------- *)

\* an attribute of s, None when it has none
Attr(s, k) == IF k \in DOMAIN s THEN s[k] ELSE None

\* mutant of ResolveIdentity: a field neither passed nor in the environment
\* keeps the value an earlier init left
ResolveIdentity_Merging(s, e, a) ==
    SetAttrs(s,
      [app_name |-> Or(a.app_name, EnvGet(e, "AGENTA_APP_NAME", Attr(s, "app_name"))),
       base_name |-> Or(a.base_name, EnvGet(e, "AGENTA_BASE_NAME", Attr(s, "base_name"))),
       api_key |-> Or(a.api_key, EnvGet(e, "AGENTA_API_KEY", Attr(s, "api_key"))),
       base_id |-> Or(a.base_id, EnvGet(e, "AGENTA_BASE_ID", Attr(s, "base_id"))),
       app_id |-> Or(a.app_id, EnvGet(e, "AGENTA_APP_ID", Attr(s, "app_id"))),
       host |-> Or(a.host, EnvGet(e, "AGENTA_HOST", "http://localhost"))])

\* lines 66-71: identity from the arguments, falling back on the environment
ResolveIdentity(s, e, a) ==
    SetAttrs(s,
      [app_name |-> Or(a.app_name, EnvGet(e, "AGENTA_APP_NAME", None)),
       base_name |-> Or(a.base_name, EnvGet(e, "AGENTA_BASE_NAME", None)),
       api_key |-> Or(a.api_key, EnvGet(e, "AGENTA_API_KEY", None)),
       base_id |-> Or(a.base_id, EnvGet(e, "AGENTA_BASE_ID", None)),
       app_id |-> Or(a.app_id, EnvGet(e, "AGENTA_APP_ID", None)),
       host |-> Or(a.host, EnvGet(e, "AGENTA_HOST", "http://localhost"))])

\* line 73: the condition of the "will not be saved permanently" warning
WarnsNotSaved(s) ==
    ~Truthy(s.app_id) /\ (~Truthy(s.app_name) \/ ~Truthy(s.base_name))

\* line 78: the condition of the name -> id lookup
NeedsLookup(s) ==
    ~Truthy(s.base_id) /\ Truthy(s.app_name) /\ Truthy(s.base_name)

\* mutant of GetApp: no check for an empty result, so apps[0] raises
GetApp_NoEmptyCheck(app_name, apps) ==
    IF ~apps.ok
    THEN [raised |-> Exc("RemoteError", <<"list_apps failed">>, None), value |-> None]
    ELSE IF Len(apps.items) = 0
    THEN [raised |-> Exc("IndexError", <<"list index out of range">>, None), value |-> None]
    ELSE [raised |-> NoExc, value |-> apps.items[1]]

\* get_app(app_name), given what list_apps does
GetApp(app_name, apps) ==
    IF ~apps.ok
    THEN [raised |-> Exc("RemoteError", <<"list_apps failed">>, None), value |-> None]
    ELSE IF Len(apps.items) = 0
    THEN [raised |-> Exc("APIRequestError", <<"App with name ", app_name, " not found">>, None),
          value |-> None]
    ELSE [raised |-> NoExc, value |-> apps.items[1]]

\* mutant of GetAppBase: takes the last match
GetAppBase_Last(app_id, base_name, bases) ==
    IF ~bases.ok
    THEN [raised |-> Exc("RemoteError", <<"list_bases failed">>, None), value |-> None]
    ELSE IF Len(bases.items) = 0
    THEN [raised |-> Exc("APIRequestError", <<"No base was found for the app ", app_id>>, None),
          value |-> None]
    ELSE [raised |-> NoExc, value |-> bases.items[Len(bases.items)]]

\* get_app_base(app_id, base_name), given what list_bases does
GetAppBase(app_id, base_name, bases) ==
    IF ~bases.ok
    THEN [raised |-> Exc("RemoteError", <<"list_bases failed">>, None), value |-> None]
    ELSE IF Len(bases.items) = 0
    THEN [raised |-> Exc("APIRequestError", <<"No base was found for the app ", app_id>>, None),
          value |-> None]
    ELSE [raised |-> NoExc, value |-> bases.items[1]]

\* lines 82-85: except Exception as ex: raise APIRequestError(f"... error: {ex}")
WrapLookupError(ex) ==
    Exc("APIRequestError",
        <<"Failed to get base id and/or app_id from the server with error: ">> \o ex.msg,
        ex.exc)

\* AgentaSingleton.init: the singleton's attributes, the exception raised (if
\* any), the remote calls made, what was printed, and the Config constructed
SingletonInit(s, e, a, apps, bases) ==
    LET s1 == ResolveIdentity(s, e, a)
        out == IF WarnsNotSaved(s1) THEN <<"Warning: Your configuration will not be saved permanently">>
               ELSE <<>>
        variant == [variant_id |-> EnvGet(e, "AGENTA_VARIANT_ID", None),
                    variant_name |-> EnvGet(e, "AGENTA_VARIANT_NAME", None)]
    IN IF ~NeedsLookup(s1)
       THEN [singleton |-> SetAttrs(s1, variant), raised |-> NoExc, calls |-> <<>>,
             printed |-> out, built |-> TRUE, config |-> ConfigNew(s1.base_id, s1.host)]
       ELSE LET ga == GetApp(s1.app_name, apps)
                c1 == <<[api |-> "list_apps", app_name |-> s1.app_name]>>
            IN IF ga.raised.exc # None
               THEN [singleton |-> s1, raised |-> WrapLookupError(ga.raised), calls |-> c1,
                     printed |-> out, built |-> FALSE, config |-> EmptyDict]
               ELSE LET s2 == SetAttrs(s1, [app_id |-> ga.value])
                        gb == GetAppBase(s2.app_id, s2.base_name, bases)
                        c2 == c1 \o <<[api |-> "list_bases", app_id |-> s2.app_id,
                                       base_name |-> s2.base_name]>>
                    IN IF gb.raised.exc # None
                       THEN [singleton |-> s2, raised |-> WrapLookupError(gb.raised),
                             calls |-> c2, printed |-> out, built |-> FALSE, config |-> EmptyDict]
                       ELSE LET s3 == SetAttrs(s2, [base_id |-> gb.value])
                            IN [singleton |-> SetAttrs(s3, variant), raised |-> NoExc,
                                calls |-> c2, printed |-> out, built |-> TRUE,
                                config |-> ConfigNew(s3.base_id, s3.host)]

\* AgentaSingleton.get_current_config: reads self._config_data
GetCurrentConfigResult(s) ==
    IF "_config_data" \notin DOMAIN s
    THEN Exc("AttributeError", <<"'AgentaSingleton' object has no attribute ", "_config_data">>, None)
    ELSE IF s["_config_data"] = None
    THEN Exc("RuntimeError", <<"AgentaSingleton has not been initialized">>, None)
    ELSE NoExc

(* ------------------------------ actions ------------------------------- *)

\* a reference to a newly constructed object: not the one stored before
NewRef(old) == IF old = 1 THEN 2 ELSE 1

\* the module-level init(app_name, base_name, **kwargs), lines 229-240:
\* singleton.init(...), then set_global(setup=..., config=singleton.config)
ModuleInit ==
    /\ \E a \in InitArgs :
       \E look \in {NeedsLookup(ResolveIdentity(singleton, env, a))} :
       \E apps \in (IF look THEN AppResponses ELSE {Unused}) :
       \E bases \in (IF look /\ apps.ok /\ Len(apps.items) > 0
                     THEN BaseResponses ELSE {Unused}) :
       \E r \in {SingletonInit(singleton, env, a, apps, bases)} :
           /\ singleton' = r.singleton
           /\ config_ref' = IF r.built THEN NewRef(config_ref) ELSE config_ref
           /\ config' = IF r.built THEN r.config ELSE config
           /\ ctor' = IF r.built THEN <<r.singleton.base_id, r.singleton.host>> ELSE ctor
           /\ last_set' = IF r.built THEN EmptyDict ELSE last_set
           /\ published' = IF r.built THEN NewRef(config_ref) ELSE published
           /\ call' = [op |-> "init", args |-> a, apps |-> apps, bases |-> bases]
           /\ before' = config
           /\ outcome' = r.raised
           /\ ret' = EmptyDict
           /\ remote_calls' = r.calls
           /\ attempt' = "none"
           /\ printed' = r.printed
           /\ logged' = <<>>
    /\ UNCHANGED env

\* AgentaSingleton().get_current_config()
GetCurrentConfig ==
    /\ \E r \in {GetCurrentConfigResult(singleton)} :
           /\ outcome' = r
           /\ ret' = IF r.exc = None THEN config ELSE EmptyDict
    /\ call' = [op |-> "get_current_config"]
    /\ before' = config
    /\ remote_calls' = <<>>
    /\ attempt' = "none"
    /\ printed' = <<>>
    /\ logged' = <<>>
    /\ UNCHANGED <<env, singleton, config_ref, config, published, ctor, last_set>>

\* the outcome of one operation on the Config object
Ran(op, attrs, kw, calls, tried, warnings, raised, value) ==
    /\ call' = op
    /\ before' = config
    /\ config' = attrs
    /\ last_set' = SetAttrs(last_set, kw)
    /\ outcome' = raised
    /\ ret' = value
    /\ remote_calls' = calls
    /\ attempt' = tried
    /\ logged' = warnings
    /\ printed' = <<>>
    /\ UNCHANGED <<env, singleton, config_ref, published, ctor>>

\* whether the operation reaches the backend, and so what the backend may do
Reaches(attrs) == Truthy(attrs.persist) /\ ConfigClient(attrs) = "ok"

\* config.set(**kw)
Set(kws) ==
    \E kw \in kws :
        Ran([op |-> "set", kw |-> kw], ConfigSet(config, kw), kw, <<>>, "none", <<>>, NoExc, EmptyDict)

\* config.default(overwrite=ow, **kw)
Default ==
    \E kw \in Kwargs, ow \in {"True", "False"} :
    \E remote_ok \in (IF Reaches(ConfigSet(config, kw)) THEN BOOLEAN ELSE {FALSE}) :
    \E r \in {ConfigDefault(config, ow, kw, remote_ok)} :
        Ran([op |-> "default", kw |-> kw, overwrite |-> ow],
            r.attrs, kw, r.calls, r.attempt, r.logged, r.raised, EmptyDict)

\* config.push(config_name=cn, overwrite=ow, **kw)
Push ==
    \E kw \in {k \in Kwargs : "config_name" \notin DOMAIN k} :
    \E c \in {<<"default", "True">>, <<"custom", "False">>} :
    \E remote_ok \in (IF Reaches(config) THEN BOOLEAN ELSE {FALSE}) :
    \E r \in {ConfigPush(config, c[1], c[2], kw, remote_ok)} :
        Ran([op |-> "push", kw |-> kw, config_name |-> c[1], overwrite |-> c[2]],
            config, EmptyDict, r.calls, r.attempt, r.logged, r.raised, EmptyDict)

\* config.pull(config_name=cn, environment_name=en)
Pull ==
    \E cn \in {"default", "custom"}, en \in {None, "", "prod"} :
    \E fetched \in (IF Reaches(config) THEN Fetches ELSE {NoFetch}) :
    \E r \in {ConfigPull(config, cn, en, fetched)} :
        Ran([op |-> "pull", config_name |-> cn, environment_name |-> en],
            r.attrs, r.kw, r.calls, r.attempt, r.logged, r.raised, EmptyDict)

\* config.all()
All ==
    Ran([op |-> "all"], config, EmptyDict, <<>>, "none", <<>>, NoExc, ConfigAll(config))

\* a caller sets a parameter on the Configuration the singleton stores
StoredSet == config_ref # 0 /\ Set({[a |-> "v1"]})

Init ==
    /\ env \in Envs
    /\ singleton = [setup |-> None]
    /\ config_ref = 0
    /\ config = EmptyDict
    /\ published = 0
    /\ ctor = <<None, None>>
    /\ last_set = EmptyDict
    /\ call = [op |-> "start"]
    /\ before = EmptyDict
    /\ outcome = NoExc
    /\ ret = EmptyDict
    /\ remote_calls = <<>>
    /\ attempt = "none"
    /\ printed = <<>>
    /\ logged = <<>>

Next == ModuleInit \/ GetCurrentConfig \/ StoredSet

Spec == Init /\ [][Next]_vars

\* a Config constructed directly, Config(base_id, host), and then used
CfgInit ==
    /\ env = EmptyDict
    /\ singleton = [setup |-> None]
    /\ config_ref = 1
    /\ published = 0
    /\ \E b \in {None, "b0"}, h \in {None, "h1"} :
          /\ config = ConfigNew(b, h)
          /\ ctor = <<b, h>>
    /\ last_set = EmptyDict
    /\ call = [op |-> "Config"]
    /\ before = EmptyDict
    /\ outcome = NoExc
    /\ ret = EmptyDict
    /\ remote_calls = <<>>
    /\ attempt = "none"
    /\ printed = <<>>
    /\ logged = <<>>

CfgNext == Set(Kwargs) \/ Default \/ Push \/ Pull \/ All

CfgSpec == CfgInit /\ [][CfgNext]_vars


(* ====================== properties of the singleton =================== *)

\* what the last init call was given: an argument, else the environment
Given(field, key) == Or(call.args[field], EnvGet(env, key, None))
GivenAppName == Given("app_name", "AGENTA_APP_NAME")
GivenBaseName == Given("base_name", "AGENTA_BASE_NAME")
GivenAppId == Given("app_id", "AGENTA_APP_ID")
GivenBaseId == Given("base_id", "AGENTA_BASE_ID")
GivenHost == Or(call.args.host, EnvGet(env, "AGENTA_HOST", "http://localhost"))

\* the last operation was an init with no base id and both names
InitByNames ==
    /\ call.op = "init"
    /\ ~Truthy(GivenBaseId)
    /\ Truthy(GivenAppName)
    /\ Truthy(GivenBaseName)

Returned(resp) == resp.ok /\ Len(resp.items) > 0
ReturnedNothing(resp) == resp.ok /\ Len(resp.items) = 0
Called(api) == \E i \in DOMAIN remote_calls : remote_calls[i].api = api

\* C1: get_current_config returns the stored Configuration once an init call
\* has completed, and raises the "has not been initialized" RuntimeError when
\* no init has been called.
C1_GetCurrentConfigContract ==
    call.op = "get_current_config" =>
        /\ config_ref # 0 => outcome.exc = None /\ ret = config
        /\ "app_name" \notin DOMAIN singleton =>
               /\ outcome.exc = "RuntimeError"
               /\ Mentions(outcome, "AgentaSingleton has not been initialized")

\* C2: an init by names fails with an APIRequestError wrapping the cause when
\* list_apps or list_bases raises or returns nothing; the message names the
\* app name (no app), respectively the resolved app id (no base), and
\* list_bases is not called when list_apps returned nothing.
C2_LookupFailureIsFatal ==
    InitByNames =>
        /\ (~Returned(call.apps) \/ ~Returned(call.bases)) =>
               outcome.exc = "APIRequestError" /\ outcome.cause # None
        /\ ReturnedNothing(call.apps) =>
               /\ Mentions(outcome, GivenAppName)
               /\ outcome.cause = "APIRequestError"
               /\ ~Called("list_bases")
        /\ (Returned(call.apps) /\ ReturnedNothing(call.bases)) =>
               /\ Mentions(outcome, call.apps.items[1])
               /\ outcome.cause = "APIRequestError"
        /\ (call.apps = Failure \/ call.bases = Failure) => outcome.cause = "RemoteError"

\* C2 witness: several apps match, no base does; the error names the first app id
C2_Witness ==
    /\ InitByNames
    /\ call.apps = Found(<<"a2", "a1">>)
    /\ call.bases = Found(<<>>)
    /\ outcome.exc = "APIRequestError"
    /\ Mentions(outcome, "a2")

\* C3: an init by names whose two lookups both return something calls
\* list_apps(app name), then list_bases(first app id, base name), and leaves the
\* first app id and the first base id in the singleton, with the stored
\* Configuration bound to that base id.
C3_ResolvesFirstMatch ==
    (InitByNames /\ Returned(call.apps) /\ Returned(call.bases)) =>
        /\ outcome.exc = None
        /\ remote_calls =
             << [api |-> "list_apps", app_name |-> GivenAppName],
                [api |-> "list_bases", app_id |-> call.apps.items[1],
                 base_name |-> GivenBaseName] >>
        /\ singleton.app_id = call.apps.items[1]
        /\ singleton.base_id = call.bases.items[1]
        /\ config_ref # 0
        /\ config.base_id = call.bases.items[1]

\* C3 witness: both lookups return two matches and the first of each is kept
C3_Witness ==
    /\ InitByNames
    /\ call.apps = Found(<<"a2", "a1">>)
    /\ call.bases = Found(<<"b2", "b1">>)
    /\ singleton.app_id = "a2"
    /\ config.base_id = "b2"

\* C4: an init with no app id and a missing name produces a Configuration that
\* is not persistable, and prints a warning.
C4_NoIdentityMeansLocalOnly ==
    (/\ call.op = "init"
     /\ ~Truthy(GivenAppId)
     /\ (~Truthy(GivenAppName) \/ ~Truthy(GivenBaseName))) =>
        /\ outcome.exc = None
        /\ config.persist = "False"
        /\ printed # <<>>

Bookkeeping == {"app_name", "base_name", "host", "base_id", "api_key", "persist"}

\* the parameters a Configuration holds: its attributes other than bookkeeping
ParameterBag(attrs) == [k \in DOMAIN attrs \ Bookkeeping |-> attrs[k]]

\* a dictionary with the pairs of kw laid over it
Overlay(d, kw) ==
    [k \in DOMAIN d \cup DOMAIN kw |-> IF k \in DOMAIN kw THEN kw[k] ELSE d[k]]

\* C5: persist is true exactly when the Configuration was constructed with a
\* base id and a host, in every state reached by set, default, push, pull, all.
C5_PersistFixedAtConstruction ==
    config.persist = IF ctor[1] # None /\ ctor[2] # None THEN "True" ELSE "False"

\* C6: push makes no backend call when persist is false, and otherwise one
\* save_config call for the base id, the given name and overwrite flag, sending
\* the whole parameter bag.
C6_PushSendsWholeBag ==
    call.op = "push" =>
        IF ~Truthy(before.persist)
        THEN remote_calls = <<>>
        ELSE remote_calls =
               << [api |-> "save_config", base_id |-> before.base_id,
                   config_name |-> call.config_name,
                   parameters |-> ParameterBag(before),
                   overwrite |-> call.overwrite] >>

\* the attributes the backend request of the last operation started from
AtRequest == IF call.op = "default" THEN Overlay(before, call.kw) ELSE before

\* C7: when the backend request of push, default or pull fails on a persistable
\* Configuration, the operation returns normally, logs a warning, and leaves
\* the attributes as they were when the request was made.
C7_SyncFailureIsSwallowed ==
    (/\ call.op \in {"push", "default", "pull"}
     /\ Truthy(AtRequest.persist)
     /\ attempt = "failed") =>
        /\ outcome.exc = None
        /\ logged # <<>>
        /\ config = AtRequest

\* C7 witness: a default on a persistable Configuration whose request failed,
\* keeping the parameter it set locally
C7_Witness ==
    /\ call.op = "default"
    /\ call.kw = [a |-> "v1"]
    /\ ctor = <<"b0", "h1">>
    /\ attempt = "failed"
    /\ outcome.exc = None
    /\ config.a = "v1"

\* C8: on a Configuration whose persist is false, pull raises exactly when the
\* name is not "default" or an environment is given; the plain pull() returns
\* normally, makes no request and changes nothing.
C8_PullWithoutPersistence ==
    (call.op = "pull" /\ ~Truthy(before.persist)) =>
        /\ outcome.exc # None <=>
               (call.config_name # "default" \/ call.environment_name # None)
        /\ outcome.exc \in {None, "Exception"}
        /\ remote_calls = <<>> /\ attempt = "none"
        /\ config = before

\* C8 witness: pull() on a local-only Configuration that holds a parameter
C8_Witness ==
    /\ call.op = "pull"
    /\ call.config_name = "default" /\ call.environment_name = None
    /\ ~Truthy(before.persist)
    /\ "a" \in DOMAIN before
    /\ outcome.exc = None

\* C9 as stated: all() is exactly the map from every name ever set to its
\* latest value, and holds no bookkeeping key.
C9_AllIsEverythingSet ==
    call.op = "all" => ret = last_set /\ DOMAIN ret \cap Bookkeeping = {}

\* C9 (amended): all() is exactly the map from every name ever set, other than
\* the six bookkeeping keys, to its latest value, and holds no bookkeeping key.
C9_AllIsParametersSet ==
    call.op = "all" =>
        /\ ret = [k \in DOMAIN last_set \ Bookkeeping |-> last_set[k]]
        /\ DOMAIN ret \cap Bookkeeping = {}

\* C9 witness: all() after two names and a bookkeeping key were set
C9_Witness ==
    /\ call.op = "all"
    /\ DOMAIN ret = {"a", "config_name"}
    /\ ret.a = "False"
    /\ "persist" \in DOMAIN last_set

====
